---- MODULE Spec2Model ----
(***************************************************************************)
(* Model of generate-extra-json.mjs: the script that reconciles a channel  *)
(* snapshot (dashboard.json) with the persisted registries                 *)
(* (last-known-good-versions, latest-versions-per-milestone,               *)
(* known-good-versions), derives latest-patch-versions-per-build and       *)
(* writes each registry plus its "-with-downloads" expansion.              *)
(*                                                                         *)
(* A version string such as "120.0.6099.10" is a sequence of components,   *)
(* each component the sequence of its decimal digits:                      *)
(*   << <<1,2,0>>, <<0>>, <<6,0,9,9>>, <<1,0>> >>.                         *)
(* String equality is equality of these sequences; Number() folds a        *)
(* component's digits into an integer.                                     *)
(***************************************************************************)
EXTENDS Integers, Sequences, FiniteSets, TLC

VARIABLES
    files,      \* path -> JSON document on disk (NoDoc: never written)
    dist,       \* version -> document written to ./dist/<version>.json
    heap,       \* the running process's objects, by the name of the const holding them
    pc,         \* the top-level statement the script executes next
    now,        \* the clock createTimestamp() reads
    order,      \* key order of the "channels" object of the JSON files
    dashboard,  \* the last DASHBOARD_DATA read (reconciler runs)
    rerun,      \* that snapshot is the one the run before it read
    written,    \* the paths the running process has written, in order
    observed,   \* every version updateLatestVersionsPerMilestone was handed
    stamps,     \* the assignments of createTimestamp() the last reconciler run made
    reported,   \* the errors the running process ended with
    tasks,      \* version -> state of its per-version write ("pending", "written", "failed")
    fn,         \* pure-function harness: the function last applied
    arg,        \* its argument
    res         \* its result

vars == <<files, dist, heap, pc, now, order, dashboard, rerun,
          written, observed, stamps, reported, tasks, fn, arg, res>>

(***************************************************************************)
(* Bounds                                                                  *)
(***************************************************************************)
\* number of runs of the script in one behaviour
MaxRuns == 2
\* greatest length of a catalog handed to the pure-function harness
MaxLen == 3

(***************************************************************************)
(* Version strings                                                         *)
(***************************************************************************)
v114 == << <<1,1,4>>, <<0>>, <<5,7,3,5>>, <<9,0>> >>
v119 == << <<1,1,9>>, <<0>>, <<6,0,4,5>>, <<1,0,5>> >>
v120p5 == << <<1,2,0>>, <<0>>, <<6,0,9,9>>, <<5>> >>
v120p10 == << <<1,2,0>>, <<0>>, <<6,0,9,9>>, <<1,0>> >>
v121 == << <<1,2,1>>, <<0>>, <<6,1,6,7>>, <<8>> >>

\* versions the channels of a run may carry
RunVersions == {v120p5, v120p10, v121}
\* versions handed to the pure functions
AllVersions == {v114, v119, v120p5, v120p10, v121}
Revisions == {"r1", "r2"}
Channels == {"Stable", "Beta"}
ChannelOrders == {<<"Stable", "Beta">>, <<"Beta", "Stable">>}

NoDoc == [absent |-> TRUE]

(***************************************************************************)
(* is-older-version.mjs (not part of the sources at hand): spec 4.1, 4.2   *)
(***************************************************************************)
RECURSIVE Number(_)
\* Number("6099"): the integer a component's digits denote
Number(digits) ==
    IF digits = <<>> THEN 0
    ELSE Number(SubSeq(digits, 1, Len(digits) - 1)) * 10 + digits[Len(digits)]

\* version.split('.').map(Number)
Parts(version) == [i \in 1..Len(version) |-> Number(version[i])]

Min(a, b) == IF a < b THEN a ELSE b

\* true iff the first differing integer component of a is lower than b's
isOlderVersion(a, b) ==
    LET pa == Parts(a)
        pb == Parts(b)
        n == Min(Len(pa), Len(pb))
        diff == {i \in 1..n : pa[i] # pb[i]}
    IN  /\ diff # {}
        /\ LET first == CHOOSE i \in diff : \A j \in diff : i <= j
           IN  pa[first] < pb[first]

\* first release that shipped chromedriver / chrome-headless-shell
MinChromeDriverVersion == << <<1,1,5>>, <<0>>, <<5,7,6,3>>, <<0>> >>
MinChromeHeadlessShellVersion == << <<1,2,0>>, <<0>>, <<6,0,9,8>>, <<0>> >>

predatesChromeDriverAvailability(version) ==
    isOlderVersion(version, MinChromeDriverVersion)

predatesChromeHeadlessShellAvailability(version) ==
    isOlderVersion(version, MinChromeHeadlessShellVersion)

(***************************************************************************)
(* url-utils.mjs (not part of the sources at hand): spec 6                 *)
(***************************************************************************)
binaries == <<"chrome", "chromedriver", "chrome-headless-shell", "mojojs">>
platforms == <<"linux64", "mac-arm64", "mac-x64", "win32", "win64">>

\* a pure template of version, platform and binary; the platform-agnostic
\* form leaves the platform out
makeDownloadUrl(version, platform, binary) ==
    [version |-> version, platform |-> platform, binary |-> binary]

makeDownloadUrlNoPlatform(version, binary) ==
    [version |-> version, binary |-> binary]

(***************************************************************************)
(* createTimestamp, lines 25-27                                            *)
(***************************************************************************)
createTimestamp(clock) == clock

(***************************************************************************)
(* prepareLastKnownGoodVersionsData, lines 29-46                           *)
(***************************************************************************)
\* differs with the records compared as objects, which are never the same
differsAlways(knownData, channelData) == TRUE

\* lines 35-38 negated: the persisted entry differs from the snapshot record
differs(knownData, channelData) ==
    ~ (/\ knownData.version = channelData.version
       /\ knownData.revision = channelData.revision)

\* skipsChannel without the test of ok
skipsNoChannel(channelData) == FALSE

\* line 32: the record is skipped
skipsChannel(channelData) == ~ channelData.ok

RECURSIVE reconcileFrom(_, _, _, _, _)
\* the loop of lines 31-44 from the i-th channel of the snapshot on
reconcileFrom(lastKnownGoodVersions, data, keys, i, clock) ==
    IF i > Len(keys) THEN lastKnownGoodVersions
    ELSE LET channelData == data.channels[keys[i]]
             channelName == channelData.channel
             knownData == lastKnownGoodVersions.channels[channelName]
         IN  IF skipsChannel(channelData) \/ ~ differs(knownData, channelData)
             THEN reconcileFrom(lastKnownGoodVersions, data, keys, i + 1, clock)
             ELSE reconcileFrom(
                    [timestamp |-> createTimestamp(clock),
                     channels |-> [lastKnownGoodVersions.channels EXCEPT
                        ![channelName] = [@ EXCEPT
                            !.version = channelData.version,
                            !.revision = channelData.revision]]],
                    data, keys, i + 1, clock)

prepareLastKnownGoodVersionsData(persisted, data, keys, clock) ==
    reconcileFrom(persisted, data, keys, 1, clock)

RECURSIVE timestampAssignments(_, _, _, _)
\* the executions of line 41 by the loop of lines 31-44 from the i-th
\* channel of the snapshot on
timestampAssignments(lastKnownGoodVersions, data, keys, i) ==
    IF i > Len(keys) THEN 0
    ELSE LET channelData == data.channels[keys[i]]
             channelName == channelData.channel
             knownData == lastKnownGoodVersions.channels[channelName]
         IN  IF skipsChannel(channelData) \/ ~ differs(knownData, channelData)
             THEN timestampAssignments(lastKnownGoodVersions, data, keys, i + 1)
             ELSE 1 + timestampAssignments(
                    [lastKnownGoodVersions EXCEPT
                        !.channels[channelName].version = channelData.version,
                        !.channels[channelName].revision = channelData.revision],
                    data, keys, i + 1)

(***************************************************************************)
(* updateKnownGoodVersions, lines 48-74                                    *)
(***************************************************************************)
\* lines 50-54: the versions already in the catalog
versionSet(versions) == {versions[i].version : i \in 1..Len(versions)}

\* setAdd with line 60 left out
setAddForgotten(set, version) == set

\* line 60: the set after a version was appended
setAdd(set, version) == set \cup {version}

RECURSIVE mergeFrom(_, _, _, _, _, _)
\* the loop of lines 55-66 from the i-th channel on
mergeFrom(knownGoodVersions, set, channels, keys, i, clock) ==
    IF i > Len(keys) THEN knownGoodVersions
    ELSE LET entry == channels[keys[i]]
         IN  IF entry.version \in set
             THEN mergeFrom(knownGoodVersions, set, channels, keys, i + 1, clock)
             ELSE mergeFrom(
                    [timestamp |-> createTimestamp(clock),
                     versions |-> Append(knownGoodVersions.versions,
                        [version |-> entry.version, revision |-> entry.revision])],
                    setAdd(set, entry.version), channels, keys, i + 1, clock)

RECURSIVE insertions(_, _, _, _)
\* the executions of line 65 by the loop of lines 55-66 from the i-th
\* channel on
insertions(set, channels, keys, i) ==
    IF i > Len(keys) THEN 0
    ELSE LET entry == channels[keys[i]]
         IN  IF entry.version \in set
             THEN insertions(set, channels, keys, i + 1)
             ELSE 1 + insertions(setAdd(set, entry.version), channels, keys, i + 1)

\* compareEntries without the test of equality of line 69
compareEntriesNoTie(a, b) ==
    IF isOlderVersion(a.version, b.version) THEN -1 ELSE 1

\* the sort callback, lines 67-71
compareEntries(a, b) ==
    IF isOlderVersion(a.version, b.version) THEN -1
    ELSE IF a.version = b.version THEN 0
    ELSE 1

\* the place x takes in a sorted sequence: behind every element not after it
insertSorted(sorted, x) ==
    LET before == {i \in 1..Len(sorted) : compareEntries(sorted[i], x) <= 0}
        k == IF before = {} THEN 0
             ELSE CHOOSE i \in before : \A j \in before : j <= i
    IN  SubSeq(sorted, 1, k) \o <<x>> \o SubSeq(sorted, k + 1, Len(sorted))

RECURSIVE sortFrom(_, _, _)
sortFrom(sorted, versions, i) ==
    IF i > Len(versions) THEN sorted
    ELSE sortFrom(insertSorted(sorted, versions[i]), versions, i + 1)

\* sortVersions with the sort of line 67 left out
sortVersionsSkipped(versions) == versions

\* knownGoodVersions.versions.sort(...), line 67: a stable sort by the callback
sortVersions(versions) == sortFrom(<<>>, versions, 1)

\* updateKnownGoodVersions without the loop of lines 55-66
updateKnownGoodVersionsUnmerged(persisted, lastKnownGoodVersions, keys, clock) ==
    [persisted EXCEPT !.versions = sortVersions(@)]

\* updateKnownGoodVersions starting from an empty catalog instead of the
\* one read at line 49
updateKnownGoodVersionsFromScratch(persisted, lastKnownGoodVersions, keys, clock) ==
    LET merged == mergeFrom([persisted EXCEPT !.versions = <<>>], {},
                            lastKnownGoodVersions.channels, keys, 1, clock)
    IN  [merged EXCEPT !.versions = sortVersions(@)]

\* lines 49-71: the document written at line 72 and returned at line 73
updateKnownGoodVersions(persisted, lastKnownGoodVersions, keys, clock) ==
    LET merged == mergeFrom(persisted, versionSet(persisted.versions),
                            lastKnownGoodVersions.channels, keys, 1, clock)
    IN  [merged EXCEPT !.versions = sortVersions(@)]

(***************************************************************************)
(* updateLatestVersionsPerMilestone, lines 122-153                         *)
(***************************************************************************)
\* version.split('.')[0], line 129
milestoneOf(version) == version[1]

\* supersedes with the arguments of isOlderVersion swapped
supersedesSwapped(current, version) == isOlderVersion(version, current.version)

\* supersedes with "not newer" in place of "older": an equal version
\* replaces the entry too
supersedesOrEqual(current, version) == ~ isOlderVersion(version, current.version)

\* supersedes testing only that the versions differ
supersedesIfDifferent(current, version) == current.version # version

\* line 132: the stored entry gives way to the channel's version
supersedes(current, version) == isOlderVersion(current.version, version)

RECURSIVE milestonesFrom(_, _, _, _)
\* the loop of lines 127-145 from the i-th channel on; the result carries
\* needsUpdate beside the milestones
milestonesFrom(state, channels, keys, i) ==
    IF i > Len(keys) THEN state
    ELSE LET channelData == channels[keys[i]]
             version == channelData.version
             revision == channelData.revision
             milestone == milestoneOf(version)
             milestones == state.milestones
         IN  IF milestone \in DOMAIN milestones
             THEN IF supersedes(milestones[milestone], version)
                  THEN milestonesFrom(
                         [needsUpdate |-> TRUE,
                          milestones |-> [milestones EXCEPT ![milestone] =
                             [@ EXCEPT !.version = version, !.revision = revision]]],
                         channels, keys, i + 1)
                  ELSE milestonesFrom(state, channels, keys, i + 1)
             ELSE milestonesFrom(
                    [needsUpdate |-> TRUE,
                     milestones |-> [m \in DOMAIN milestones \cup {milestone} |->
                        IF m = milestone
                        THEN [milestone |-> milestone, version |-> version,
                              revision |-> revision]
                        ELSE milestones[m]]],
                    channels, keys, i + 1)

\* lines 123-149: the document written at line 151 and returned at line 152
updateLatestVersionsPerMilestone(persisted, lastKnownGoodVersionsData, keys, clock) ==
    LET final == milestonesFrom(
                    [needsUpdate |-> FALSE, milestones |-> persisted.milestones],
                    lastKnownGoodVersionsData.channels, keys, 1)
    IN  [timestamp |-> IF final.needsUpdate THEN createTimestamp(clock)
                       ELSE persisted.timestamp,
         milestones |-> final.milestones]

(***************************************************************************)
(* prepareLatestPatchVersionsPerBuild, lines 155-180                       *)
(***************************************************************************)
\* the "build" group of /(?<build>.*)\.(?<patch>\d+)$/, lines 157-161
buildOf(version) == SubSeq(version, 1, Len(version) - 1)

\* replaces with the arguments of isOlderVersion swapped
replacesOlder(knownVersion, version) == isOlderVersion(version, knownVersion)

\* line 164: the entry kept for a build gives way to a later entry
replaces(knownVersion, version) == isOlderVersion(knownVersion, version)

RECURSIVE buildsFrom(_, _, _)
\* the loop of lines 158-170; the Map holds, per build, the index of the
\* entry object of knownGoodVersions.versions it refers to
buildsFrom(map, versions, i) ==
    IF i > Len(versions) THEN map
    ELSE LET version == versions[i].version
             build == buildOf(version)
         IN  IF build \in DOMAIN map
             THEN IF replaces(versions[map[build]].version, version)
                  THEN buildsFrom([map EXCEPT ![build] = i], versions, i + 1)
                  ELSE buildsFrom(map, versions, i + 1)
             ELSE buildsFrom(
                    [b \in DOMAIN map \cup {build} |->
                        IF b = build THEN i ELSE map[b]],
                    versions, i + 1)

\* lines 171-179; builds[partialVersion] is a reference into the catalog
prepareLatestPatchVersionsPerBuild(knownGoodVersions) ==
    [timestamp |-> knownGoodVersions.timestamp,
     builds |-> buildsFrom(<<>>, knownGoodVersions.versions, 1)]

(***************************************************************************)
(* addDownloads, lines 76-120                                              *)
(***************************************************************************)
ObjectNames ==
    {"lastKnownGoodVersionsData", "latestVersionsPerMilestone",
     "knownGoodVersions", "latestPatchVersionsPerBuild", "data"}

EmptyHeap == [o \in ObjectNames |-> NoDoc]

\* structuredClone replaced by the reference itself (const copy = data)
sameObject(ref) == ref

\* the object structuredClone returns for the object `ref` names, line 77:
\* a fresh one, named by no const of the script
structuredClone(ref) == "copy"

\* skipsBinary without the chromedriver cutoff of lines 82-84
skipsBinaryNoDriverCutoff(binary, version) ==
    \/ binary = "chrome-headless-shell"
         /\ predatesChromeHeadlessShellAvailability(version)
    \/ binary = "mojojs"

\* skipsBinary without the exclusion of mojojs of lines 88-91
skipsBinaryNoExclusion(binary, version) ==
    \/ binary = "chromedriver" /\ predatesChromeDriverAvailability(version)
    \/ binary = "chrome-headless-shell"
         /\ predatesChromeHeadlessShellAvailability(version)

\* lines 82-91: no entry of the binary is emitted for the version
skipsBinary(binary, version) ==
    \/ binary = "chromedriver" /\ predatesChromeDriverAvailability(version)
    \/ binary = "chrome-headless-shell"
         /\ predatesChromeHeadlessShellAvailability(version)
    \/ binary = "mojojs"

\* lines 92-116: the list downloads[binary]
downloadsForThisBinary(binary, version) ==
    IF binary = "mojojs"
    THEN << [url |-> makeDownloadUrlNoPlatform(version, binary)] >>
    ELSE [i \in 1..Len(platforms) |->
            [platform |-> platforms[i],
             url |-> makeDownloadUrl(version, platforms[i], binary)]]

\* lines 79-117: channelData.downloads once the loop over binaries is through
downloadsOf(version) ==
    LET emitted == {binaries[i] : i \in {j \in 1..Len(binaries) :
                                            ~ skipsBinary(binaries[j], version)}}
    IN  [binary \in emitted |-> downloadsForThisBinary(binary, version)]

\* the record with its downloads field set, line 79
withDownloads(channelData) ==
    [f \in DOMAIN channelData \cup {"downloads"} |->
        IF f = "downloads" THEN downloadsOf(channelData.version)
        ELSE channelData[f]]

\* lines 78-118 on a document whose records are its own
expand(doc, key) ==
    [doc EXCEPT ![key] = [k \in DOMAIN @ |-> withDownloads(@[k])]]

\* The document an object of the heap denotes, as JSON.stringify and
\* structuredClone see it: the entries of latestPatchVersionsPerBuild are the
\* entry objects of knownGoodVersions.versions (lines 165, 168, 177).
valueOf(h, ref) ==
    IF ref = "latestPatchVersionsPerBuild"
    THEN [h[ref] EXCEPT !.builds =
            [b \in DOMAIN @ |-> h["knownGoodVersions"].versions[@[b]]]]
    ELSE h[ref]

\* addDownloads(data, key) for the object `ref` names: the heap it leaves
\* and the document it returns. The loop writes downloads into the records
\* of `copy`; these are records of a named object only if copy is that object.
addDownloads(h, ref, key) ==
    LET copy == structuredClone(ref)
    IN  IF copy # ref
        THEN [heap |-> h, result |-> expand(valueOf(h, ref), key)]
        ELSE LET after ==
                   IF ref = "latestPatchVersionsPerBuild"
                   THEN LET used == {h[ref].builds[b] : b \in DOMAIN h[ref].builds}
                        IN  [h EXCEPT !["knownGoodVersions"].versions =
                                [i \in DOMAIN @ |->
                                    IF i \in used THEN withDownloads(@[i])
                                    ELSE @[i]]]
                   ELSE [h EXCEPT ![ref] = expand(@, key)]
             IN  [heap |-> after, result |-> valueOf(after, ref)]

(***************************************************************************)
(* The files                                                               *)
(***************************************************************************)
LastKnownGoodPath == "./data/last-known-good-versions.json"
LastKnownGoodDownloadsPath == "./data/last-known-good-versions-with-downloads.json"
MilestonesPath == "./data/latest-versions-per-milestone.json"
MilestonesDownloadsPath == "./data/latest-versions-per-milestone-with-downloads.json"
KnownGoodPath == "./data/known-good-versions.json"
KnownGoodDownloadsPath == "./data/known-good-versions-with-downloads.json"
BuildsPath == "./data/latest-patch-versions-per-build.json"
BuildsDownloadsPath == "./data/latest-patch-versions-per-build-with-downloads.json"

DistPath == "./dist/"

RegistryPaths == {LastKnownGoodPath, MilestonesPath, KnownGoodPath, BuildsPath}
DownloadsPaths ==
    {LastKnownGoodDownloadsPath, MilestonesDownloadsPath, KnownGoodDownloadsPath,
     BuildsDownloadsPath}
Paths == RegistryPaths \cup DownloadsPaths

\* the key of the records of the document at a path
keyOf(path) ==
    CASE path \in {LastKnownGoodPath, LastKnownGoodDownloadsPath} -> "channels"
      [] path \in {MilestonesPath, MilestonesDownloadsPath} -> "milestones"
      [] path \in {KnownGoodPath, KnownGoodDownloadsPath} -> "versions"
      [] path \in {BuildsPath, BuildsDownloadsPath} -> "builds"

\* the outputs in the order a run writes them
WriteOrder ==
    << LastKnownGoodPath, LastKnownGoodDownloadsPath,
       MilestonesPath, MilestonesDownloadsPath,
       KnownGoodPath, KnownGoodDownloadsPath,
       BuildsPath, BuildsDownloadsPath, DistPath >>

\* readJsonFile / writeJsonFile (json-utils.mjs): JSON text of plain data
readJsonFile(disk, path) == disk[path]
writeJsonFile(disk, path, doc) == [disk EXCEPT ![path] = doc]

\* lines 221-224: one file per release of the expanded catalog
perVersionFiles(expanded) ==
    [v \in {expanded.versions[i].version : i \in 1..Len(expanded.versions)} |->
        LET i == CHOOSE j \in 1..Len(expanded.versions) :
                    /\ expanded.versions[j].version = v
                    /\ \A k \in (j + 1)..Len(expanded.versions) :
                          expanded.versions[k].version # v
        IN  expanded.versions[i]]

(***************************************************************************)
(* The state the script finds: registries an earlier run left behind       *)
(***************************************************************************)
InitialEntry == [version |-> v120p5, revision |-> "r1"]

\* a release no channel carries any more
RetiredEntry == [version |-> v114, revision |-> "r1"]

InitialLastKnownGood ==
    [timestamp |-> 0, channels |-> [c \in Channels |-> InitialEntry]]

InitialKnownGood ==
    [timestamp |-> 0, versions |-> << RetiredEntry, InitialEntry >>]

InitialMilestones ==
    [timestamp |-> 0,
     milestones |-> [m \in {milestoneOf(v114), milestoneOf(v120p5)} |->
        LET entry == IF m = milestoneOf(v114) THEN RetiredEntry ELSE InitialEntry
        IN  [milestone |-> m, version |-> entry.version,
             revision |-> entry.revision]]]

InitialHeap ==
    [EmptyHeap EXCEPT
        !["lastKnownGoodVersionsData"] = InitialLastKnownGood,
        !["latestVersionsPerMilestone"] = InitialMilestones,
        !["knownGoodVersions"] = InitialKnownGood,
        !["latestPatchVersionsPerBuild"] =
            prepareLatestPatchVersionsPerBuild(InitialKnownGood)]

InitialFiles ==
    [p \in Paths |->
        CASE p = LastKnownGoodPath -> InitialLastKnownGood
          [] p = MilestonesPath -> InitialMilestones
          [] p = KnownGoodPath -> InitialKnownGood
          [] p = BuildsPath -> valueOf(InitialHeap, "latestPatchVersionsPerBuild")
          [] p = LastKnownGoodDownloadsPath -> expand(InitialLastKnownGood, "channels")
          [] p = MilestonesDownloadsPath -> expand(InitialMilestones, "milestones")
          [] p = KnownGoodDownloadsPath -> expand(InitialKnownGood, "versions")
          [] p = BuildsDownloadsPath ->
                expand(valueOf(InitialHeap, "latestPatchVersionsPerBuild"), "builds")]

\* the snapshots dashboard.json may hold: one record per channel
ChannelRecords(c) ==
    [channel : {c}, version : RunVersions, revision : Revisions, ok : BOOLEAN]

Snapshots ==
    {[channels |-> chans] :
        chans \in {f \in [Channels -> UNION {ChannelRecords(c) : c \in Channels}] :
                        \A c \in Channels : f[c].channel = c}}

NoDashboard == [channels |-> <<>>]

Init ==
    /\ files = InitialFiles
    /\ dist = perVersionFiles(expand(InitialKnownGood, "versions"))
    /\ heap = EmptyHeap
    /\ pc = "start"
    /\ now = 0
    /\ order \in ChannelOrders
    /\ dashboard = NoDashboard
    /\ rerun = FALSE
    /\ written = <<>>
    /\ observed = {}
    /\ stamps = 0
    /\ reported = {}
    /\ tasks = <<>>
    /\ fn = "none"
    /\ arg = NoDoc
    /\ res = NoDoc

(***************************************************************************)
(* The script, lines 182-227: one action per top-level statement           *)
(***************************************************************************)
\* the top-level statements in the order the file lists them, other than
\* in the order of lines 182-227: the catalog (202-207) ahead of the
\* milestones (195-200)
scriptCatalogFirst ==
    << "start",
       "writeLastKnownGood", "writeLastKnownGoodDownloads",
       "updateKnownGoodVersions", "writeKnownGoodDownloads",
       "updateLatestVersionsPerMilestone", "writeMilestonesDownloads",
       "writeLatestPatchVersionsPerBuild", "writeBuildsDownloads",
       "writePerVersionFiles", "exit" >>

\* the top-level statements in the order of lines 182-227
script ==
    << "start",
       "writeLastKnownGood", "writeLastKnownGoodDownloads",
       "updateLatestVersionsPerMilestone", "writeMilestonesDownloads",
       "updateKnownGoodVersions", "writeKnownGoodDownloads",
       "writeLatestPatchVersionsPerBuild", "writeBuildsDownloads",
       "writePerVersionFiles", "exit" >>

position(statement) == CHOOSE i \in 1..Len(script) : script[i] = statement

\* the statement control reaches when `statement` returns
nextStatement(statement) == script[position(statement) + 1]

\* a file readJsonFile cannot read or parse
Unreadable == [unreadable |-> TRUE]

\* readJsonFile returns instead of throwing
loads(disk, path) == readJsonFile(disk, path) # Unreadable

\* line 157: /(?<build>.*)\.(?<patch>\d+)$/ matches the version: it has a
\* dot, and digits after its last dot
matchesBuildPatch(version) ==
    /\ Len(version) >= 2
    /\ version[Len(version)] # <<>>

\* line 161: match.groups of a null match throws a TypeError
reducerThrows(knownGoodVersions) ==
    \E i \in 1..Len(knownGoodVersions.versions) :
        ~ matchesBuildPatch(knownGoodVersions.versions[i].version)

\* an uncaught exception of a top-level await ends the process
LoadFailure(path) == [kind |-> "LoadFailure", path |-> path]
TypeError == [kind |-> "TypeError", path |-> "none"]

\* lines 182-184: a new process reads the dashboard and reconciles
Prepare(snapshots) ==
    /\ pc \in {"start", "exit", "aborted"}
    /\ now < MaxRuns
    /\ loads(files, LastKnownGoodPath)
    /\ now' = now + 1
    /\ \E DASHBOARD_DATA \in snapshots :
          heap' = [EmptyHeap EXCEPT !["lastKnownGoodVersionsData"] =
                      prepareLastKnownGoodVersionsData(
                          readJsonFile(files, LastKnownGoodPath),
                          DASHBOARD_DATA, order, now')]
    /\ pc' = nextStatement("start")
    /\ written' = <<>>
    /\ reported' = {}
    /\ tasks' = <<>>
    /\ UNCHANGED <<files, dist, order, dashboard, rerun,
                   observed, stamps, fn, arg, res>>

PrepareLastKnownGood == Prepare(Snapshots)

\* lines 185-188
WriteLastKnownGood ==
    /\ pc = "writeLastKnownGood"
    /\ files' = writeJsonFile(files, LastKnownGoodPath,
                              valueOf(heap, "lastKnownGoodVersionsData"))
    /\ written' = Append(written, LastKnownGoodPath)
    /\ pc' = nextStatement(pc)
    /\ UNCHANGED <<dist, heap, now, order, dashboard, rerun,
                   observed, stamps, reported, tasks, fn, arg, res>>

\* lines 190-193
WriteLastKnownGoodDownloads ==
    /\ pc = "writeLastKnownGoodDownloads"
    /\ LET call == addDownloads(heap, "lastKnownGoodVersionsData", "channels")
       IN  /\ heap' = call.heap
           /\ files' = writeJsonFile(files, LastKnownGoodDownloadsPath, call.result)
    /\ written' = Append(written, LastKnownGoodDownloadsPath)
    /\ pc' = nextStatement(pc)
    /\ UNCHANGED <<dist, now, order, dashboard, rerun,
                   observed, stamps, reported, tasks, fn, arg, res>>

\* line 195: read, update, write (line 151), keep the returned document
UpdateLatestVersionsPerMilestone ==
    /\ pc = "updateLatestVersionsPerMilestone"
    /\ loads(files, MilestonesPath)
    /\ LET latestVersionsPerMilestoneData ==
                updateLatestVersionsPerMilestone(
                    readJsonFile(files, MilestonesPath),
                    heap["lastKnownGoodVersionsData"], order, now)
       IN  /\ files' = writeJsonFile(files, MilestonesPath,
                                     latestVersionsPerMilestoneData)
           /\ heap' = [heap EXCEPT !["latestVersionsPerMilestone"] =
                                        latestVersionsPerMilestoneData]
    /\ observed' = observed \cup
          {heap["lastKnownGoodVersionsData"].channels[c].version : c \in Channels}
    /\ written' = Append(written, MilestonesPath)
    /\ pc' = nextStatement(pc)
    /\ UNCHANGED <<dist, now, order, dashboard, rerun,
                   stamps, reported, tasks, fn, arg, res>>

\* lines 197-200
WriteMilestonesDownloads ==
    /\ pc = "writeMilestonesDownloads"
    /\ LET call == addDownloads(heap, "latestVersionsPerMilestone", "milestones")
       IN  /\ heap' = call.heap
           /\ files' = writeJsonFile(files, MilestonesDownloadsPath, call.result)
    /\ written' = Append(written, MilestonesDownloadsPath)
    /\ pc' = nextStatement(pc)
    /\ UNCHANGED <<dist, now, order, dashboard, rerun,
                   observed, stamps, reported, tasks, fn, arg, res>>

\* line 202: read, merge, sort, write (line 72), keep the returned document
UpdateKnownGoodVersions ==
    /\ pc = "updateKnownGoodVersions"
    /\ loads(files, KnownGoodPath)
    /\ LET knownGoodVersions ==
                updateKnownGoodVersions(
                    readJsonFile(files, KnownGoodPath),
                    heap["lastKnownGoodVersionsData"], order, now)
       IN  /\ files' = writeJsonFile(files, KnownGoodPath, knownGoodVersions)
           /\ heap' = [heap EXCEPT !["knownGoodVersions"] = knownGoodVersions]
    /\ written' = Append(written, KnownGoodPath)
    /\ pc' = nextStatement(pc)
    /\ UNCHANGED <<dist, now, order, dashboard, rerun,
                   observed, stamps, reported, tasks, fn, arg, res>>

\* lines 204-207
WriteKnownGoodDownloads ==
    /\ pc = "writeKnownGoodDownloads"
    /\ LET call == addDownloads(heap, "knownGoodVersions", "versions")
       IN  /\ heap' = call.heap
           /\ files' = writeJsonFile(files, KnownGoodDownloadsPath, call.result)
    /\ written' = Append(written, KnownGoodDownloadsPath)
    /\ pc' = nextStatement(pc)
    /\ UNCHANGED <<dist, now, order, dashboard, rerun,
                   observed, stamps, reported, tasks, fn, arg, res>>

\* lines 209-213
WriteLatestPatchVersionsPerBuild ==
    /\ pc = "writeLatestPatchVersionsPerBuild"
    /\ ~ reducerThrows(heap["knownGoodVersions"])
    /\ LET made == [heap EXCEPT !["latestPatchVersionsPerBuild"] =
                      prepareLatestPatchVersionsPerBuild(heap["knownGoodVersions"])]
       IN  /\ heap' = made
           /\ files' = writeJsonFile(files, BuildsPath,
                                     valueOf(made, "latestPatchVersionsPerBuild"))
    /\ written' = Append(written, BuildsPath)
    /\ pc' = nextStatement(pc)
    /\ UNCHANGED <<dist, now, order, dashboard, rerun,
                   observed, stamps, reported, tasks, fn, arg, res>>

\* lines 215-218
WriteBuildsDownloads ==
    /\ pc = "writeBuildsDownloads"
    /\ LET call == addDownloads(heap, "latestPatchVersionsPerBuild", "builds")
       IN  /\ heap' = call.heap
           /\ files' = writeJsonFile(files, BuildsDownloadsPath, call.result)
    /\ written' = Append(written, BuildsDownloadsPath)
    /\ pc' = nextStatement(pc)
    /\ UNCHANGED <<dist, now, order, dashboard, rerun,
                   observed, stamps, reported, tasks, fn, arg, res>>

\* lines 220-227, every write succeeding
WritePerVersionFiles ==
    /\ pc = "writePerVersionFiles"
    /\ LET call == addDownloads(heap, "knownGoodVersions", "versions")
           releases == perVersionFiles(call.result)
       IN  /\ heap' = call.heap
           /\ dist' = [v \in DOMAIN dist \cup DOMAIN releases |->
                          IF v \in DOMAIN releases THEN releases[v] ELSE dist[v]]
    /\ written' = Append(written, DistPath)
    /\ pc' = nextStatement(pc)
    /\ UNCHANGED <<files, now, order, dashboard, rerun,
                   observed, stamps, reported, tasks, fn, arg, res>>

Next ==
    \/ PrepareLastKnownGood
    \/ WriteLastKnownGood
    \/ WriteLastKnownGoodDownloads
    \/ UpdateLatestVersionsPerMilestone
    \/ WriteMilestonesDownloads
    \/ UpdateKnownGoodVersions
    \/ WriteKnownGoodDownloads
    \/ WriteLatestPatchVersionsPerBuild
    \/ WriteBuildsDownloads
    \/ WritePerVersionFiles

Spec == Init /\ [][Next]_vars

(***************************************************************************)
(* The reconciler alone, lines 182-188, run after run: the snapshot read   *)
(* stays in the state, so that two runs can be told to have read the same  *)
(***************************************************************************)
ReconcileAndPersist ==
    /\ now < MaxRuns
    /\ now' = now + 1
    /\ \E DASHBOARD_DATA \in Snapshots :
          /\ dashboard' = DASHBOARD_DATA
          /\ rerun' = (DASHBOARD_DATA = dashboard)
          /\ files' = writeJsonFile(files, LastKnownGoodPath,
                          prepareLastKnownGoodVersionsData(
                              readJsonFile(files, LastKnownGoodPath),
                              DASHBOARD_DATA, order, now'))
          /\ stamps' = timestampAssignments(
                          readJsonFile(files, LastKnownGoodPath),
                          DASHBOARD_DATA, order, 1)
    /\ UNCHANGED <<dist, heap, pc, order, written, observed, reported, tasks,
                   fn, arg, res>>

SpecReconciler == Init /\ [][ReconcileAndPersist]_vars


(***************************************************************************)
(* The script with its failures: a persisted registry that cannot be read  *)
(* (lines 30, 49, 123), a version the pattern of line 157 does not match   *)
(* (line 161), a per-version write that is rejected (lines 220-227)        *)
(***************************************************************************)
\* "121.0.6167.": the patch component is missing
vMalformed == << <<1,2,1>>, <<0>>, <<6,1,6,7>>, <<>> >>

\* dotted-integer shape: every component has digits
wellFormed(version) == \A i \in 1..Len(version) : version[i] # <<>>

FaultyVersions == {v121, vMalformed}

\* dashboards whose channels are ok and may carry the malformed version
FaultySnapshots ==
    {[channels |-> [c \in Channels |->
          [channel |-> c, version |-> f[c], revision |-> "r1", ok |-> TRUE]]] :
        f \in [Channels -> FaultyVersions]}

PrepareFromFaulty == Prepare(FaultySnapshots)

\* between two runs a persisted registry is lost or corrupted
Damage ==
    /\ pc \in {"start", "exit", "aborted"}
    /\ now < MaxRuns
    /\ \E path \in {LastKnownGoodPath, MilestonesPath, KnownGoodPath} :
          /\ loads(files, path)
          /\ files' = [files EXCEPT ![path] = Unreadable]
    /\ UNCHANGED <<dist, heap, pc, now, order, dashboard, rerun,
                   written, observed, stamps, reported, tasks, fn, arg, res>>

\* line 30 throws in a new process: nothing has been called yet
FailLoadingLastKnownGood ==
    /\ pc \in {"start", "exit", "aborted"}
    /\ now < MaxRuns
    /\ ~ loads(files, LastKnownGoodPath)
    /\ now' = now + 1
    /\ heap' = EmptyHeap
    /\ written' = <<>>
    /\ reported' = {LoadFailure(LastKnownGoodPath)}
    /\ tasks' = <<>>
    /\ pc' = "aborted"
    /\ UNCHANGED <<files, dist, order, dashboard, rerun,
                   observed, stamps, fn, arg, res>>

\* line 123 throws inside the call of line 195
FailLoadingMilestones ==
    /\ pc = "updateLatestVersionsPerMilestone"
    /\ ~ loads(files, MilestonesPath)
    /\ reported' = {LoadFailure(MilestonesPath)}
    /\ pc' = "aborted"
    /\ UNCHANGED <<files, dist, heap, now, order, dashboard, rerun,
                   written, observed, stamps, tasks, fn, arg, res>>

\* line 49 throws inside the call of line 202
FailLoadingKnownGood ==
    /\ pc = "updateKnownGoodVersions"
    /\ ~ loads(files, KnownGoodPath)
    /\ reported' = {LoadFailure(KnownGoodPath)}
    /\ pc' = "aborted"
    /\ UNCHANGED <<files, dist, heap, now, order, dashboard, rerun,
                   written, observed, stamps, tasks, fn, arg, res>>

\* line 161 throws inside the call of line 209
FailReducing ==
    /\ pc = "writeLatestPatchVersionsPerBuild"
    /\ reducerThrows(heap["knownGoodVersions"])
    /\ reported' = {TypeError}
    /\ pc' = "aborted"
    /\ UNCHANGED <<files, dist, heap, now, order, dashboard, rerun,
                   written, observed, stamps, tasks, fn, arg, res>>

\* the rejection of one writeJsonFile promise of line 222
WriteFailure(version) == [kind |-> "WriteFailure", file |-> version]

\* lines 221-224: the release each per-version file is written from
releasesOf(h) == perVersionFiles(addDownloads(h, "knownGoodVersions", "versions").result)

allSettled(state) == \A v \in DOMAIN state : state[v] # "pending"

\* where the process ends once no write is pending: an unhandled rejection
\* (line 227 neither awaits nor catches) ends it with an error
settledAt(state, errors) ==
    IF allSettled(state) THEN (IF errors = {} THEN "exit" ELSE "aborted")
    ELSE "perVersionWrites"

\* lines 220-227: addDownloads, then map starts every write before
\* Promise.all is awaited; line 227 does not wait for the result
StartPerVersionWrites ==
    /\ pc = "writePerVersionFiles"
    /\ LET call == addDownloads(heap, "knownGoodVersions", "versions")
       IN  /\ heap' = call.heap
           /\ tasks' = [v \in DOMAIN perVersionFiles(call.result) |-> "pending"]
    /\ written' = Append(written, DistPath)
    /\ pc' = "perVersionWrites"
    /\ UNCHANGED <<files, dist, now, order, dashboard, rerun,
                   observed, stamps, reported, fn, arg, res>>

\* line 222: one write is fulfilled
FulfilWrite ==
    /\ pc = "perVersionWrites"
    /\ \E v \in DOMAIN tasks :
          /\ tasks[v] = "pending"
          /\ dist' = [f \in DOMAIN dist \cup {v} |->
                         IF f = v THEN releasesOf(heap)[v] ELSE dist[f]]
          /\ tasks' = [tasks EXCEPT ![v] = "written"]
    /\ pc' = settledAt(tasks', reported)
    /\ UNCHANGED <<files, heap, now, order, dashboard, rerun,
                   written, observed, stamps, reported, fn, arg, res>>

\* line 222: one write is rejected. Promise.all (line 221) rejects with the
\* first rejection and ignores the later ones
RejectWrite ==
    /\ pc = "perVersionWrites"
    /\ \E v \in DOMAIN tasks :
          /\ tasks[v] = "pending"
          /\ tasks' = [tasks EXCEPT ![v] = "failed"]
          /\ reported' = IF reported = {} THEN {WriteFailure(v)} ELSE reported
    /\ pc' = settledAt(tasks', reported')
    /\ UNCHANGED <<files, dist, heap, now, order, dashboard, rerun,
                   written, observed, stamps, fn, arg, res>>

\* line 227: the rejection of writePerVersionFiles() is unhandled, and the
\* runtime may end the process while sibling writes are pending
ExitOnUnhandledRejection ==
    /\ pc = "perVersionWrites"
    /\ reported # {}
    /\ pc' = "aborted"
    /\ UNCHANGED <<files, dist, heap, now, order, dashboard, rerun,
                   written, observed, stamps, reported, tasks, fn, arg, res>>

NextFailures ==
    \/ PrepareFromFaulty
    \/ Damage
    \/ FailLoadingLastKnownGood
    \/ WriteLastKnownGood
    \/ WriteLastKnownGoodDownloads
    \/ UpdateLatestVersionsPerMilestone
    \/ FailLoadingMilestones
    \/ WriteMilestonesDownloads
    \/ UpdateKnownGoodVersions
    \/ FailLoadingKnownGood
    \/ WriteKnownGoodDownloads
    \/ WriteLatestPatchVersionsPerBuild
    \/ FailReducing
    \/ WriteBuildsDownloads
    \/ StartPerVersionWrites
    \/ FulfilWrite
    \/ RejectWrite
    \/ ExitOnUnhandledRejection

SpecFailures == Init /\ [][NextFailures]_vars


(***************************************************************************)
(* Whole runs, lines 182-227 from the first read to the last write, one    *)
(* after the other: the snapshot read stays in the state, and the last run *)
(* of a behaviour reads the snapshot of the run before it                  *)
(***************************************************************************)
\* the objects of a process that ran lines 184-209 on the files of `disk`
runHeap(disk, data, keys, clock) ==
    LET lastKnownGoodVersionsData ==
            prepareLastKnownGoodVersionsData(
                readJsonFile(disk, LastKnownGoodPath), data, keys, clock)
        latestVersionsPerMilestone ==
            updateLatestVersionsPerMilestone(
                readJsonFile(disk, MilestonesPath),
                lastKnownGoodVersionsData, keys, clock)
        knownGoodVersions ==
            updateKnownGoodVersions(
                readJsonFile(disk, KnownGoodPath),
                lastKnownGoodVersionsData, keys, clock)
    IN  [EmptyHeap EXCEPT
            !["lastKnownGoodVersionsData"] = lastKnownGoodVersionsData,
            !["latestVersionsPerMilestone"] = latestVersionsPerMilestone,
            !["knownGoodVersions"] = knownGoodVersions,
            !["latestPatchVersionsPerBuild"] =
                prepareLatestPatchVersionsPerBuild(knownGoodVersions)]

\* the object each path is written from, lines 185-218
objectAt(path) ==
    CASE path \in {LastKnownGoodPath, LastKnownGoodDownloadsPath}
            -> "lastKnownGoodVersionsData"
      [] path \in {MilestonesPath, MilestonesDownloadsPath}
            -> "latestVersionsPerMilestone"
      [] path \in {KnownGoodPath, KnownGoodDownloadsPath} -> "knownGoodVersions"
      [] path \in {BuildsPath, BuildsDownloadsPath} -> "latestPatchVersionsPerBuild"

\* the files a process with these objects has written when it is through
runFiles(h) ==
    [p \in Paths |->
        IF p \in RegistryPaths THEN valueOf(h, objectAt(p))
        ELSE addDownloads(h, objectAt(p), keyOf(p)).result]

\* one whole run on a snapshot
Run(DASHBOARD_DATA) ==
    /\ now < MaxRuns
    /\ now' = now + 1
    /\ dashboard' = DASHBOARD_DATA
    /\ rerun' = (DASHBOARD_DATA = dashboard)
    /\ \E h \in {runHeap(files, DASHBOARD_DATA, order, now + 1)} :
          /\ heap' = h
          /\ files' = runFiles(h)
          /\ \E releases \in {releasesOf(h)} :
                dist' = [v \in DOMAIN dist \cup DOMAIN releases |->
                            IF v \in DOMAIN releases THEN releases[v] ELSE dist[v]]
    /\ written' = WriteOrder
    /\ pc' = "exit"
    /\ UNCHANGED <<order, observed, stamps, reported, tasks, fn, arg, res>>

\* a run on a new snapshot, while another run can follow
FreshRun ==
    /\ now + 1 < MaxRuns
    /\ \E DASHBOARD_DATA \in Snapshots : Run(DASHBOARD_DATA)

\* a run on the snapshot the run before it read
RepeatRun ==
    /\ now >= 1
    /\ Run(dashboard)

NextRerun == FreshRun \/ RepeatRun

SpecRerun == Init /\ [][NextRerun]_vars

(***************************************************************************)
(* The functions alone, each applied once to an input drawn from a bounded *)
(* set                                                                     *)
(***************************************************************************)
e120p1 == << <<1,2,0>>, <<0>>, <<1>>, <<1>> >>
e120p5 == << <<1,2,0>>, <<0>>, <<1>>, <<5>> >>
e120p10 == << <<1,2,0>>, <<0>>, <<1>>, <<1,0>> >>
e121p1 == << <<1,2,1>>, <<0>>, <<2>>, <<1>> >>
t99 == << <<9,9>>, <<0>>, <<7>> >>
t100 == << <<1,0,0>>, <<0>>, <<7>> >>
t100p12 == << <<1,0,0>>, <<0>>, <<1,2>> >>

ReducerVersions == {e120p1, e120p5, e120p10, e121p1}
ComparatorVersions == AllVersions \cup ReducerVersions \cup {t99, t100, t100p12}

Entries(versions) == [version : versions, revision : Revisions]

\* the duplicate-free catalogs of at most MaxLen entries, in any order
Catalogs(versions) ==
    {[timestamp |-> 0, versions |-> seq] :
        seq \in {s \in UNION {[1..n -> Entries(versions)] : n \in 0..MaxLen} :
                    \A i, j \in 1..Len(s) : s[i].version = s[j].version => i = j}}

ChannelRegistries ==
    {[timestamp |-> 0, channels |-> chans] :
        chans \in [Channels -> Entries(AllVersions)]}

\* the registries addDownloads is handed, with the key of their records
Registries ==
    {[doc |-> d, key |-> "channels"] : d \in ChannelRegistries}
    \cup {[doc |-> d, key |-> "versions"] : d \in Catalogs(AllVersions)}
    \cup {[doc |-> updateLatestVersionsPerMilestone(
                       [timestamp |-> 0, milestones |-> <<>>], d,
                       <<"Stable", "Beta">>, 0),
           key |-> "milestones"] : d \in ChannelRegistries}
    \cup {[doc |-> valueOf(
                       [EmptyHeap EXCEPT
                          !["knownGoodVersions"] = d,
                          !["latestPatchVersionsPerBuild"] =
                              prepareLatestPatchVersionsPerBuild(d)],
                       "latestPatchVersionsPerBuild"),
           key |-> "builds"] : d \in Catalogs(AllVersions)}

InitPure ==
    /\ files = InitialFiles
    /\ dist = perVersionFiles(expand(InitialKnownGood, "versions"))
    /\ heap = EmptyHeap
    /\ pc = "start"
    /\ now = 0
    /\ order = <<"Stable", "Beta">>
    /\ dashboard = NoDashboard
    /\ rerun = FALSE
    /\ written = <<>>
    /\ observed = {}
    /\ stamps = 0
    /\ reported = {}
    /\ tasks = <<>>
    /\ fn = "none"
    /\ arg = NoDoc
    /\ res = NoDoc

\* the sort callback and isOlderVersion on a pair of versions, both ways round
Compare ==
    \E a, b \in ComparatorVersions :
        /\ fn = "none"
        /\ Len(a) = Len(b)
        /\ fn' = "compareEntries"
        /\ arg' = [a |-> a, b |-> b]
        /\ res' = [older |-> isOlderVersion(a, b),
                   newer |-> isOlderVersion(b, a),
                   forth |-> compareEntries([version |-> a, revision |-> "r1"],
                                            [version |-> b, revision |-> "r1"]),
                   back |-> compareEntries([version |-> b, revision |-> "r1"],
                                           [version |-> a, revision |-> "r1"])]
        /\ heap' = EmptyHeap
        /\ UNCHANGED <<files, dist, pc, now, order, dashboard, rerun,
                   written, observed, stamps, reported, tasks>>

\* updateKnownGoodVersions on a persisted catalog, sorted or not, and a
\* last-known-good document
Merge ==
    \E persisted \in Catalogs(RunVersions),
       channels \in [Channels -> Entries(RunVersions)] :
        LET lastKnownGoodVersions == [timestamp |-> 0, channels |-> channels]
        IN  /\ fn = "none"
            /\ fn' = "updateKnownGoodVersions"
            /\ arg' = [persisted |-> persisted,
                       lastKnownGoodVersions |-> lastKnownGoodVersions]
            /\ res' = updateKnownGoodVersions(persisted, lastKnownGoodVersions,
                                              order, 1)
            /\ stamps' = insertions(versionSet(persisted.versions), channels,
                                    order, 1)
            /\ heap' = EmptyHeap
            /\ UNCHANGED <<files, dist, pc, now, order, dashboard, rerun,
                           written, observed, reported, tasks>>

\* prepareLatestPatchVersionsPerBuild on a catalog
Reduce ==
    \E knownGoodVersions \in Catalogs(ReducerVersions) :
        /\ fn = "none"
        /\ fn' = "prepareLatestPatchVersionsPerBuild"
        /\ arg' = knownGoodVersions
        /\ heap' = [EmptyHeap EXCEPT
                      !["knownGoodVersions"] = knownGoodVersions,
                      !["latestPatchVersionsPerBuild"] =
                          prepareLatestPatchVersionsPerBuild(knownGoodVersions)]
        /\ res' = valueOf(heap', "latestPatchVersionsPerBuild")
        /\ UNCHANGED <<files, dist, pc, now, order, dashboard, rerun,
                   written, observed, stamps, reported, tasks>>

\* addDownloads on a registry held by the const `data`
Expand ==
    \E registry \in Registries :
        LET call == addDownloads([EmptyHeap EXCEPT !["data"] = registry.doc],
                                 "data", registry.key)
        IN  /\ fn = "none"
            /\ fn' = "addDownloads"
            /\ arg' = registry
            /\ heap' = call.heap
            /\ res' = call.result
            /\ UNCHANGED <<files, dist, pc, now, order, dashboard, rerun,
                   written, observed, stamps, reported, tasks>>

NextPure == Compare \/ Merge \/ Reduce \/ Expand

SpecPure == InitPure /\ [][NextPure]_vars

(***************************************************************************)
(* Properties                                                              *)
(***************************************************************************)
lastKnownGood == files[LastKnownGoodPath]
catalog == files[KnownGoodPath].versions
milestonesOnDisk == files[MilestonesPath].milestones

\* the records of a document
recordsOf(doc, key) == {doc[key][k] : k \in DOMAIN doc[key]}

\* C1: the persisted flat catalog never holds two entries with the same
\* version, whatever the snapshots of the runs were.
C1_CatalogVersionsUnique ==
    \A i, j \in 1..Len(catalog) :
        catalog[i].version = catalog[j].version => i = j

\* a run is through in which both channels carried 121.0.6167.8, not in the
\* catalog before, under two revisions, and the catalog took it in
C1_Witness ==
    /\ pc = "exit"
    /\ lastKnownGood.channels["Stable"].version = v121
    /\ lastKnownGood.channels["Beta"].version = v121
    /\ lastKnownGood.channels["Stable"].revision
         # lastKnownGood.channels["Beta"].revision
    /\ lastKnownGood.timestamp = now
    /\ files[KnownGoodPath].timestamp = now
    /\ v121 \in versionSet(catalog)

\* C2: the persisted flat catalog is non-decreasing under the comparator in
\* every state, so after every run, inserting or not, in either channel
\* order; 120.0.6099.5 stands before 120.0.6099.10.
C2_CatalogSorted ==
    /\ \A i, j \in 1..Len(catalog) :
          i < j => ~ isOlderVersion(catalog[j].version, catalog[i].version)
    /\ \A i, j \in 1..Len(catalog) :
          catalog[i].version = v120p5 /\ catalog[j].version = v120p10 => i < j

\* a run is through whose catalog holds every version, 120.0.6099.10 and
\* 121.0.6167.8 appended behind 120.0.6099.5
C2_Witness ==
    /\ pc = "exit"
    /\ order = <<"Beta", "Stable">>
    /\ [i \in 1..Len(catalog) |-> catalog[i].version]
          = <<v114, v120p5, v120p10, v121>>

\* C3: from one state to the next no milestone key leaves the persisted
\* milestone registry and no stored version becomes older.
C3_MilestonesNeverRegress ==
    [][\A m \in DOMAIN milestonesOnDisk :
          /\ m \in DOMAIN milestonesOnDisk'
          /\ ~ isOlderVersion(milestonesOnDisk'[m].version,
                              milestonesOnDisk[m].version)]_vars

\* the milestone update of a run is through in which a channel went back to
\* 120.0.6099.5 while milestone 120 stands at 120.0.6099.10
C3_Witness ==
    /\ pc = "writeMilestonesDownloads"
    /\ lastKnownGood.timestamp = now
    /\ \E c \in Channels : lastKnownGood.channels[c].version = v120p5
    /\ milestonesOnDisk[milestoneOf(v120p5)].version = v120p10

\* C4: a run of the reconciler that reads the snapshot the run before it
\* read leaves the last-known-good registry as it was: timestamp, versions
\* and revisions.
C4_RerunChangesNothing ==
    [][rerun' => files'[LastKnownGoodPath] = files[LastKnownGoodPath]]_vars

\* the second run read the first run's snapshot; the first run had changed
\* a channel at time 1 and the timestamp still stands at 1
C4_Witness ==
    /\ rerun
    /\ now = 2
    /\ lastKnownGood.timestamp = 1
    /\ \E c \in Channels :
          /\ dashboard.channels[c].ok
          /\ lastKnownGood.channels[c].version = dashboard.channels[c].version
          /\ lastKnownGood.channels[c] # InitialEntry

\* C5: a run of the reconciler leaves the persisted version and revision of
\* every channel whose record is not ok as they were, and leaves the
\* timestamp as it was when no record is ok.
C5_NotOkUntouched ==
    [][now' # now =>
        /\ \A c \in Channels :
              ~ dashboard'.channels[c].ok =>
                 files'[LastKnownGoodPath].channels[c]
                    = files[LastKnownGoodPath].channels[c]
        /\ (\A c \in Channels : ~ dashboard'.channels[c].ok) =>
              files'[LastKnownGoodPath].timestamp
                 = files[LastKnownGoodPath].timestamp]_vars

\* a run changed one channel while the record of the other, not ok, carried
\* a version and a revision that are not the persisted ones
C5_Witness ==
    /\ now >= 1
    /\ lastKnownGood.timestamp = now
    /\ \E c \in Channels :
          /\ ~ dashboard.channels[c].ok
          /\ dashboard.channels[c].version # lastKnownGood.channels[c].version
          /\ dashboard.channels[c].revision # lastKnownGood.channels[c].revision

\* C6: the reducer's builds are keyed by exactly the build prefixes of the
\* catalog, and each prefix maps to an entry of the catalog with that prefix
\* than which no entry with that prefix is newer.
C6_ReducerKeepsLatestPatch ==
    fn = "prepareLatestPatchVersionsPerBuild" =>
        LET versions == arg.versions
            entries == {versions[i] : i \in 1..Len(versions)}
        IN  /\ DOMAIN res.builds = {buildOf(e.version) : e \in entries}
            /\ \A build \in DOMAIN res.builds :
                  /\ res.builds[build] \in entries
                  /\ buildOf(res.builds[build].version) = build
                  /\ \A e \in entries :
                        buildOf(e.version) = build =>
                           ~ isOlderVersion(res.builds[build].version, e.version)

\* the catalog {120.0.1.1, 120.0.1.5, 121.0.2.1}, the newer patch first,
\* reduced to 120.0.1 -> 120.0.1.5 and 121.0.2 -> 121.0.2.1
C6_Witness ==
    /\ fn = "prepareLatestPatchVersionsPerBuild"
    /\ Len(arg.versions) = 3
    /\ arg.versions[1].version = e120p5
    /\ arg.versions[2].version = e120p1
    /\ arg.versions[3].version = e121p1
    /\ DOMAIN res.builds = {buildOf(e120p1), buildOf(e121p1)}
    /\ res.builds[buildOf(e120p1)].version = e120p5
    /\ res.builds[buildOf(e121p1)].version = e121p1

\* C7: of isOlderVersion(a,b), a = b, isOlderVersion(b,a) exactly one holds
\* for versions of equal component count, and the sort callback answers -1,
\* 0 or 1 with compare(a,b) = -compare(b,a).
C7_ComparatorTotal ==
    fn = "compareEntries" =>
        /\ Cardinality({k \in 1..3 :
              \/ k = 1 /\ res.older
              \/ k = 2 /\ arg.a = arg.b
              \/ k = 3 /\ res.newer}) = 1
        /\ res.forth \in {-1, 0, 1}
        /\ res.forth = 0 - res.back
        /\ (res.forth = -1) = res.older
        /\ (res.forth = 0) = (arg.a = arg.b)

\* a version compared with itself: not older, and the callback answers 0
C7_Witness ==
    /\ fn = "compareEntries"
    /\ arg.a = v120p10
    /\ arg.b = v120p10
    /\ ~ res.older
    /\ res.forth = 0

\* C8: every record addDownloads returns has a downloads mapping that holds
\* the chromedriver key iff the version does not predate chromedriver, the
\* chrome-headless-shell key iff it does not predate the headless shell,
\* and no key with an empty list.
C8_DownloadsRespectAvailability ==
    fn = "addDownloads" =>
        \A r \in recordsOf(res, arg.key) :
            /\ "downloads" \in DOMAIN r
            /\ ("chromedriver" \in DOMAIN r.downloads)
                  = ~ predatesChromeDriverAvailability(r.version)
            /\ ("chrome-headless-shell" \in DOMAIN r.downloads)
                  = ~ predatesChromeHeadlessShellAvailability(r.version)
            /\ \A binary \in DOMAIN r.downloads : Len(r.downloads[binary]) > 0

\* a registry expanded that holds 114.0.5735.90, older than chromedriver,
\* and 119.0.6045.105, older than the headless shell only
C8_Witness ==
    /\ fn = "addDownloads"
    /\ \E r \in recordsOf(res, arg.key) :
          /\ r.version = v114
          /\ DOMAIN r.downloads = {"chrome"}
    /\ \E r \in recordsOf(res, arg.key) :
          /\ r.version = v119
          /\ DOMAIN r.downloads = {"chrome", "chromedriver"}

\* C9: no record of a "-with-downloads" document or of a per-version file
\* has mojojs among the keys of its downloads.
C9_MojojsNeverPublished ==
    /\ \A path \in DownloadsPaths :
          \A r \in recordsOf(files[path], keyOf(path)) :
              /\ "downloads" \in DOMAIN r
              /\ "mojojs" \notin DOMAIN r.downloads
    /\ \A v \in DOMAIN dist :
          /\ "downloads" \in DOMAIN dist[v]
          /\ "mojojs" \notin DOMAIN dist[v].downloads

\* a run is through that published 121.0.6167.8 in all four manifests and
\* in a per-version file of its own
C9_Witness ==
    /\ pc = "exit"
    /\ \A path \in DownloadsPaths :
          \E r \in recordsOf(files[path], keyOf(path)) :
              r.version = v121 /\ "chrome" \in DOMAIN r.downloads
    /\ v121 \in DOMAIN dist
    /\ "chromedriver" \in DOMAIN dist[v121].downloads

\* the statements that call addDownloads
AddDownloadsSteps ==
    {"writeLastKnownGoodDownloads", "writeMilestonesDownloads",
     "writeKnownGoodDownloads", "writeBuildsDownloads", "writePerVersionFiles"}

\* C10: a statement that calls addDownloads leaves every object of the
\* script as it was, and no record of a registry file (last-known-good,
\* milestones, catalog, build-tracks) carries a downloads field.
C10_ExpanderLeavesInput ==
    [][/\ pc \in AddDownloadsSteps => heap' = heap
       /\ \A path \in RegistryPaths :
             \A r \in recordsOf(files'[path], keyOf(path)) :
                 "downloads" \notin DOMAIN r]_vars

\* a run is through: the build-track registry, whose entries are the
\* catalog's entry objects, was expanded and written, and neither the
\* catalog object nor the build-track file holds a downloads field
C10_Witness ==
    /\ pc = "exit"
    /\ files[BuildsPath].timestamp = now
    /\ \A r \in recordsOf(files[BuildsDownloadsPath], "builds") :
          "downloads" \in DOMAIN r
    /\ \A r \in recordsOf(files[BuildsPath], "builds") :
          "downloads" \notin DOMAIN r
    /\ \A r \in recordsOf(heap["knownGoodVersions"], "versions") :
          "downloads" \notin DOMAIN r
    /\ Cardinality(DOMAIN heap["latestPatchVersionsPerBuild"].builds) = 3


\* the versions a milestone's entry is chosen among: those the updater was
\* handed in some run and the one the registry held to begin with
candidatesOf(milestone) ==
    {v \in observed \cup
           {InitialMilestones.milestones[m].version :
                m \in DOMAIN InitialMilestones.milestones} :
        milestoneOf(v) = milestone}

\* C16: the milestone registry holds, under each milestone key, the latest
\* (under isOlderVersion) of all versions with that first component that a
\* channel of the last-known-good document handed to the updater ever held,
\* the initially persisted one included; the first component of the version
\* stored under a key is that key, and every milestone handed in has a key.
C16_MilestoneHoldsLatestSeen ==
    /\ \A v \in observed : milestoneOf(v) \in DOMAIN milestonesOnDisk
    /\ \A m \in DOMAIN milestonesOnDisk :
          /\ milestoneOf(milestonesOnDisk[m].version) = m
          /\ milestonesOnDisk[m].version \in candidatesOf(m)
          /\ \A v \in candidatesOf(m) :
                ~ isOlderVersion(milestonesOnDisk[m].version, v)

\* two runs are through; a channel held 120.0.6099.10 in the first and both
\* channels are back at 120.0.6099.5: milestone 120 keeps 120.0.6099.10,
\* and milestone 121, seen as well, has its entry
C16_Witness ==
    /\ pc = "exit"
    /\ now = 2
    /\ \A c \in Channels : lastKnownGood.channels[c].version = v120p5
    /\ {v120p5, v120p10, v121} \subseteq observed
    /\ milestonesOnDisk[milestoneOf(v120p5)].version = v120p10
    /\ milestonesOnDisk[milestoneOf(v121)].version = v121

buildsOnDisk == files[BuildsPath].builds

\* C19: when a run is through, every version a channel of the persisted
\* last-known-good document holds, the channels reported not ok included,
\* is in the catalog, has a milestone entry under its first component that
\* is not older than it, and a build-track entry under its build prefix
\* that is not older than it.
C19_ChannelVersionsCovered ==
    pc = "exit" =>
        \A c \in Channels :
            LET v == lastKnownGood.channels[c].version
            IN  /\ \E i \in 1..Len(catalog) : catalog[i].version = v
                /\ milestoneOf(v) \in DOMAIN milestonesOnDisk
                /\ ~ isOlderVersion(milestonesOnDisk[milestoneOf(v)].version, v)
                /\ buildOf(v) \in DOMAIN buildsOnDisk
                /\ ~ isOlderVersion(buildsOnDisk[buildOf(v)].version, v)

\* two runs are through: Stable reached 121.0.6167.8 and Beta, after
\* 120.0.6099.10, is back at 120.0.6099.5 under an entry that is later
C19_Witness ==
    /\ pc = "exit"
    /\ now = 2
    /\ lastKnownGood.channels["Stable"].version = v121
    /\ lastKnownGood.channels["Beta"].version = v120p5
    /\ milestonesOnDisk[milestoneOf(v120p5)].version = v120p10
    /\ buildsOnDisk[buildOf(v120p5)].version = v120p10
    /\ Len(catalog) = 4

\* the entries of a catalog that carry a version
entriesWith(versions, v) ==
    {versions[i] : i \in {j \in 1..Len(versions) : versions[j].version = v}}

\* C20: the catalog only grows: no step changes, for a version the catalog
\* holds, the entries {version, revision} that carry it, so every entry
\* is there afterwards with its version and its revision, also when a
\* channel reports that version under another revision.
C20_CatalogOnlyGrows ==
    [][\A i \in 1..Len(catalog) :
          entriesWith(catalog', catalog[i].version) =
              entriesWith(catalog, catalog[i].version)]_vars

\* a run is through in which Stable reported 120.0.6099.5, catalogued as
\* r1, under revision r2: the last-known-good document took r2, the
\* catalog entry is r1 still
C20_Witness ==
    /\ pc = "exit"
    /\ lastKnownGood.channels["Stable"] = [InitialEntry EXCEPT !.revision = "r2"]
    /\ entriesWith(catalog, v120p5) = {InitialEntry}
    /\ entriesWith(catalog, v114) = {RetiredEntry}

\* the registry documents of the running process computed so far
computed(name) == heap[name] # NoDoc

failedLoads == {p \in RegistryPaths : LoadFailure(p) \in reported}

writtenAhead(path) ==
    SubSeq(WriteOrder, 1,
           (CHOOSE i \in 1..Len(WriteOrder) : WriteOrder[i] = path) - 1)

C13_NoMalformedVersionPersisted ==
    \A p \in {LastKnownGoodPath, MilestonesPath, KnownGoodPath} :
        loads(files, p) =>
            \A record \in recordsOf(files[p], keyOf(p)) : wellFormed(record.version)

\* C14: the per-version writes are independent: when the process has ended,
\* every per-version file whose write did not fail holds the expansion of
\* its own catalog entry, whatever happened to its siblings, and every file
\* whose write failed has been reported.
C14_PerVersionWritesIsolated ==
    (pc \in {"exit", "aborted"} /\ tasks # <<>>) =>
        \A v \in DOMAIN tasks :
            /\ tasks[v] = "failed" => WriteFailure(v) \in reported
            /\ tasks[v] # "failed" =>
                  /\ tasks[v] = "written"
                  /\ dist[v] = releasesOf(heap)[v]

\* C15: in one run of the reconciler the timestamp is assigned exactly once
\* if at least one ok channel changed, and not at all otherwise: never once
\* per changed channel.
C15_TimestampBumpedOncePerRun ==
    /\ stamps \in {0, 1}
    /\ stamps = 1 <=> (now > 0 /\ lastKnownGood.timestamp = now)

\* C17: the merger re-sorts and stamps only if it inserted a version, and
\* then stamps once: when every channel's version is in the catalog
\* already, the document it returns is the one it loaded, order and
\* timestamp, also when the loaded sequence was not sorted.
C17_MergerIdleWithoutInsertion ==
    fn = "updateKnownGoodVersions" =>
        /\ stamps <= 1
        /\ (\A c \in Channels :
               arg.lastKnownGoodVersions.channels[c].version
                   \in versionSet(arg.persisted.versions))
           => res = arg.persisted

\* C11: the pipeline is idempotent: a complete run that reads the snapshot
\* the complete run before it read changes none of the four registries
\* (last-known-good, milestones, catalog, build-tracks), neither their
\* records nor their timestamps.
C11_WholeRerunChangesNothing ==
    [][rerun' => \A p \in RegistryPaths : files'[p] = files[p]]_vars

\* the second run read the first run's snapshot; the first run, at time 1,
\* had changed every registry, and all four still carry time 1
C11_Witness ==
    /\ rerun
    /\ now = 2
    /\ pc = "exit"
    /\ \A p \in RegistryPaths : files[p].timestamp = 1
    /\ milestoneOf(v121) \in DOMAIN milestonesOnDisk
    /\ Len(catalog) = 4
====
